---- MODULE Spec2Model ----
(***************************************************************************)
(* Model of src/app.py: the /should_search (predict), /search_result       *)
(* (update) and /list-db-contents (list_db_contents) handlers, the schema  *)
(* validator verify_data_types and the Prediction table they share.        *)
(*                                                                         *)
(* Requests run in request slots (threads of the web server).  A handler   *)
(* is cut into steps at the points where it touches the shared table, so   *)
(* that concurrent requests interleave exactly at their database calls.    *)
(***************************************************************************)
EXTENDS Integers, Sequences, FiniteSets, TLC

(***************************************************************************)
(* Bounds of the model.                                                    *)
(***************************************************************************)
NumThreads == 2      \* request slots that run concurrently
MaxBad == 2          \* fields of an observation that deviate from a valid one

Threads == 1..NumThreads

(***************************************************************************)
(* JSON values as Python sees them after request.get_json(): the Python    *)
(* type, the text of a string / the name of a composite, and the numeric   *)
(* value in tenths (1.5 is 15) for bool, int and float.                    *)
(***************************************************************************)
PyTypes == {"str", "bool", "int", "float", "NoneType", "list", "dict"}

JStr(s) == [kind |-> "str", val |-> s, num |-> 0]
JBool(b) == [kind |-> "bool", val |-> "", num |-> IF b THEN 10 ELSE 0]
JInt(n) == [kind |-> "int", val |-> "", num |-> 10 * n]
JFloat(tenths) == [kind |-> "float", val |-> "", num |-> tenths]
JNone == [kind |-> "NoneType", val |-> "", num |-> 0]
JList == [kind |-> "list", val |-> "[]", num |-> 0]
JDict == [kind |-> "dict", val |-> "{}", num |-> 0]

(***************************************************************************)
(* verify_data_types: the table expected_types, in its insertion order.    *)
(***************************************************************************)
columns_order ==
    << "observation_id", "Type", "Date", "Part of a policing operation",
       "Latitude", "Longitude", "Gender", "Age range",
       "Officer-defined ethnicity", "Legislation", "Object of search",
       "station" >>

FieldNames == {columns_order[i] : i \in 1..Len(columns_order)}

expected_types ==
    [col \in FieldNames |->
        CASE col = "Part of a policing operation" -> <<"bool">>
          [] col \in {"Latitude", "Longitude"} -> <<"float", "int">>
          [] OTHER -> <<"str">>]

InSeq(x, s) == \E i \in 1..Len(s) : s[i] = x

\* str() of a list of Python types, as the f-string of line 78 prints it
TypeListText(ts) ==
    IF ts = <<"str">> THEN "[<class 'str'>]"
    ELSE IF ts = <<"bool">> THEN "[<class 'bool'>]"
    ELSE "[<class 'float'>, <class 'int'>]"

\* An error message: its format and the values substituted into it.
Msg(fmt, a, b, c) == [fmt |-> fmt, a |-> a, b |-> b, c |-> c]
NoMsg == Msg("", "", "", "")
ColumnNotFound(col) == Msg("{col} column not found", col, "", "")
WrongDataType(col, expected, actual) ==
    Msg("{col} column has wrong data type. Expected {expected_type}, got {actual_type}",
        col, TypeListText(expected), actual)

\* The pair verify_data_types returns: (is_error, payload).
VerifyResult(is_error, t, msg) == [is_error |-> is_error, t |-> t, msg |-> msg]
AllCorrect == VerifyResult(FALSE, "str", Msg("All data types are correct", "", "", ""))

\* Faulty variant of CheckColumn: isinstance-style matching, where a bool passes as an int.
CheckColumnIsInstance(data, col) ==
    IF col \notin DOMAIN data
    THEN VerifyResult(TRUE, "dict", ColumnNotFound(col))
    ELSE IF ~ InSeq(data[col].kind, expected_types[col])
            /\ ~ (data[col].kind = "bool" /\ InSeq("int", expected_types[col]))
         THEN VerifyResult(TRUE, "dict",
                  WrongDataType(col, expected_types[col], data[col].kind))
         ELSE AllCorrect

\* The body of the loop of verify_data_types for one column.
CheckColumn(data, col) ==
    IF col \notin DOMAIN data
    THEN VerifyResult(TRUE, "dict", ColumnNotFound(col))
    ELSE IF ~ InSeq(data[col].kind, expected_types[col])
         THEN VerifyResult(TRUE, "dict",
                  WrongDataType(col, expected_types[col], data[col].kind))
         ELSE AllCorrect

RECURSIVE VerifyFrom(_, _)
VerifyFrom(data, i) ==
    IF i > Len(columns_order) THEN AllCorrect
    ELSE LET r == CheckColumn(data, columns_order[i])
         IN IF r.is_error THEN r ELSE VerifyFrom(data, i + 1)

\* Faulty variant of verify_data_types: the loop runs over the table backwards.
RECURSIVE VerifyBackFrom(_, _)
VerifyBackFrom(data, i) ==
    IF i < 1 THEN AllCorrect
    ELSE LET r == CheckColumn(data, columns_order[i])
         IN IF r.is_error THEN r ELSE VerifyBackFrom(data, i - 1)

verify_data_types_reversed(data) == VerifyBackFrom(data, Len(columns_order))

verify_data_types(data) == VerifyFrom(data, 1)


(***************************************************************************)
(* Request bodies.  get_json() gives None for the JSON document null and   *)
(* a dict for a JSON object; the dict is a function from its keys.         *)
(***************************************************************************)
NullBody == [kind |-> "NoneType", data |-> << >>]
DictBody(d) == [kind |-> "dict", data |-> d]

Ids == {"obs-1", "obs-2"}

\* The example observation of the specification, with a chosen id and object.
ValidObservation(id, object) ==
    [col \in FieldNames |->
        CASE col = "observation_id" -> JStr(id)
          [] col = "Part of a policing operation" -> JBool(FALSE)
          [] col = "Latitude" -> JFloat(515)
          [] col = "Longitude" -> JInt(0)
          [] col = "Object of search" -> JStr(object)
          [] OTHER -> JStr("x")]

Without(d, cols) == [c \in (DOMAIN d) \ cols |-> d[c]]
With(d, col, v) == [c \in (DOMAIN d) \cup {col} |-> IF c = col THEN v ELSE d[c]]

(***************************************************************************)
(* The scoring artifact (columns, dtypes, pipeline), loaded once and never *)
(* written.  It is opaque to the source; the model fixes one artifact that *)
(* shows each behaviour the handler can meet: a positive decision, a       *)
(* negative decision, and a row it cannot coerce or score (an exception).  *)
(* prediction is the label, proba the positive-class probability in %.     *)
(***************************************************************************)
Objects == {"Controlled drugs", "Stolen goods", "Unseen category"}

ScoreResult(raises, prediction, proba) ==
    [raises |-> raises, prediction |-> prediction, proba |-> proba]

pipeline(data) ==
    CASE data["Object of search"].val = "Controlled drugs" -> ScoreResult(FALSE, 1, 80)
      [] data["Object of search"].val = "Stolen goods" -> ScoreResult(FALSE, 0, 30)
      [] OTHER -> ScoreResult(TRUE, 0, 0)

(***************************************************************************)
(* The Prediction model (table prediction): the auto-increment key id and  *)
(* the five declared fields.                                               *)
(***************************************************************************)
\* Faulty variant of Prediction: proba and prediction are passed in each other's place.
PredictionSwapped(id, observation_id, observation, prediction, proba, true_class) ==
    [id |-> id, observation_id |-> observation_id, observation |-> observation,
     prediction |-> proba, proba |-> prediction, true_class |-> true_class]

Prediction(id, observation_id, observation, prediction, proba, true_class) ==
    [id |-> id, observation_id |-> observation_id, observation |-> observation,
     prediction |-> prediction, proba |-> proba, true_class |-> true_class]

NoPrediction == Prediction(0, "", NullBody, 0, 0, JNone)

RowsWith(rows, observation_id) ==
    {i \in 1..Len(rows) : rows[i].observation_id = observation_id}

\* Faulty variant of UniqueViolation: the column is declared without unique=True.
NotUnique(rows, observation_id) == FALSE

\* Faulty variant of UniqueViolation: uniqueness is looked up in a read of the table
\* taken before the latest insert, as a check made ahead of the INSERT would.
UniqueViolationStaleRead(rows, observation_id) ==
    Len(rows) > 0 /\ RowsWith(SubSeq(rows, 1, Len(rows) - 1), observation_id) # {}

\* observation_id = TextField(unique=True): the INSERT fails when the id is taken.
UniqueViolation(rows, observation_id) == RowsWith(rows, observation_id) # {}

(***************************************************************************)
(* IntegerField.db_value for true_class: None stays NULL, anything else    *)
(* goes through int().  int() truncates a float, maps a bool to 0/1,       *)
(* parses a numeral string, raises ValueError for any other string and     *)
(* TypeError for a list or dict.                                           *)
(***************************************************************************)
Numerals == {"0", "1"}
NumeralValue(s) == IF s = "1" THEN 1 ELSE 0

Truncate(tenths) == IF tenths >= 0 THEN tenths \div 10 ELSE -((-tenths) \div 10)

AdaptResult(exc, value) == [exc |-> exc, value |-> value]

\* Faulty variant of IntAdapt: the value is stored as given, without int().
IntAdaptIdentity(v) == AdaptResult("", v)

IntAdapt(v) ==
    CASE v.kind = "NoneType" -> AdaptResult("", JNone)
      [] v.kind \in {"int", "bool", "float"} -> AdaptResult("", JInt(Truncate(v.num)))
      [] v.kind = "str" /\ v.val \in Numerals -> AdaptResult("", JInt(NumeralValue(v.val)))
      [] v.kind = "str" -> AdaptResult("ValueError", v)
      [] OTHER -> AdaptResult("TypeError", v)

\* Python's == on two JSON values: numbers compare by value across bool/int/float.
PyEq(a, b) ==
    IF a.kind \in {"int", "bool", "float"} /\ b.kind \in {"int", "bool", "float"}
    THEN a.num = b.num
    ELSE a = b

\* str(v) as str.format renders it, for the values the model sends.
PyStr(v) ==
    CASE v.kind = "str" -> v.val
      [] v.kind = "NoneType" -> "None"
      [] v.kind = "int" /\ v.num = 10 -> "1"
      [] v.kind = "int" /\ v.num = 0 -> "0"
      [] OTHER -> v.val

(***************************************************************************)
(* What a handler hands back: a JSON payload (returned) or an exception    *)
(* that leaves the handler (raised).  keys is the key set of the payload.  *)
(***************************************************************************)
ErrorValue(t, msg) == [t |-> t, msg |-> msg]
NoError == ErrorValue("", NoMsg)

NoResponse ==
    [status |-> "", exc |-> "", keys |-> {}, outcome |-> JNone, error |-> NoError,
     observation_id |-> "", predicted_outcome |-> 0, rows |-> << >>]

Raised(exc) == [NoResponse EXCEPT !.status = "raised", !.exc = exc]

ErrorResponse(t, msg) ==
    [NoResponse EXCEPT !.status = "returned", !.keys = {"error"},
                       !.error = ErrorValue(t, msg)]

\* Faulty variant of AlreadyExists: the message is returned without .format(_id).
AlreadyExistsUnformatted(id) == Msg("Observation ID: \"{}\" already exists", "{}", "", "")

AlreadyExists(id) == Msg("Observation ID: \"{}\" already exists", id, "", "")
DoesNotExist(id) == Msg("Observation ID: \"{}\" does not exist", id, "", "")
Malformed == Msg("error malformed request", "", "", "")


(***************************************************************************)
(* The requests the clients send.                                          *)
(***************************************************************************)
ScoreBodies ==
    {NullBody}
    \cup {DictBody(ValidObservation(id, o)) : id \in Ids, o \in Objects}
    \cup {DictBody(Without(ValidObservation("obs-1", "Controlled drugs"), {"station"})),
          DictBody(With(ValidObservation("obs-1", "Stolen goods"), "Latitude", JBool(TRUE)))}

Outcomes ==
    {JInt(0), JInt(1), JBool(TRUE), JFloat(15), JStr("1"), JStr("abc"), JNone, JList}

KeySets == SUBSET {"observation_id", "outcome", "id"}

UpdateDicts ==
    UNION {[ks -> Outcomes \cup {JStr(id) : id \in Ids}] : ks \in KeySets}

\* observation_id and id carry an id string, outcome carries an outcome value
UpdateBodies ==
    {NullBody}
    \cup {DictBody(d) : d \in
            {u \in UpdateDicts :
                /\ "observation_id" \in DOMAIN u => u["observation_id"] \in {JStr(id) : id \in Ids}
                /\ "id" \in DOMAIN u => u["id"] = JStr("obs-1")
                /\ "outcome" \in DOMAIN u => u["outcome"] \in Outcomes}}

\* The requests of the concurrent clients: scorable and unscorable
\* observations under both ids, one invalid observation, a null body, and
\* reconciliations with an integer label.
ClientScoreBodies ==
    {NullBody}
    \cup {DictBody(ValidObservation(id, o)) : id \in Ids, o \in {"Controlled drugs", "Stolen goods"}}
    \cup {DictBody(ValidObservation("obs-1", "Unseen category")),
          DictBody(Without(ValidObservation("obs-1", "Controlled drugs"), {"station"}))}

ClientUpdateBodies ==
    {DictBody([k \in {"observation_id", "outcome"} |->
                  IF k = "observation_id" THEN JStr(id) ELSE JInt(n)]) :
        id \in Ids, n \in {0, 1}}

(***************************************************************************)
(* State.                                                                  *)
(*   DB        the rows of table prediction, in insertion order            *)
(*   pc        where each request slot stands in its handler               *)
(*   handler   the handler the slot runs                                   *)
(*   body      request.get_json() of the slot's request                    *)
(*   p         the Prediction instance the handler holds                   *)
(*   response  the response under construction, then the handler's result  *)
(*   dirty     the slot's connection has a failed statement not yet        *)
(*             rolled back; the database refuses every further statement   *)
(*             on it ("current transaction is aborted") until DB.rollback  *)
(*   lax_storage  fixed by the build (library version and database): a     *)
(*             string that int() rejects is stored as it is in true_class  *)
(*             (TRUE) or the statement fails (FALSE)                       *)
(*   previous  history: when a client repeats the reconciliation or the    *)
(*             list it has just been answered, the answer and the table it *)
(*             left; when                                                  *)
(*             its last score request was refused as a duplicate, that     *)
(*             fact and the table it left                                  *)
(***************************************************************************)
VARIABLES DB, pc, handler, body, p, response, dirty, lax_storage, previous

vars == <<DB, pc, handler, body, p, response, dirty, lax_storage, previous>>

NoPrevious ==
    [repeat |-> FALSE, rejected |-> FALSE, response |-> NoResponse, rows |-> << >>]

InitRequests ==
    /\ DB = << >>
    /\ pc = [t \in Threads |-> "idle"]
    /\ handler = [t \in Threads |-> ""]
    /\ body = [t \in Threads |-> NullBody]
    /\ p = [t \in Threads |-> NoPrediction]
    /\ response = [t \in Threads |-> NoResponse]
    /\ dirty = [t \in Threads |-> FALSE]
    /\ previous = [t \in Threads |-> NoPrevious]

\* The concurrent clients send integer labels, on which the builds agree.
Init == InitRequests /\ lax_storage = FALSE

InitSeq == InitRequests /\ lax_storage \in BOOLEAN

Free(t) == pc[t] \in {"idle", "done"}

\* A request arrives at a free slot and its handler starts.
Receive(t, h, b, start, sequential) ==
    /\ Free(t)
    /\ pc' = [pc EXCEPT ![t] = start]
    /\ handler' = [handler EXCEPT ![t] = h]
    /\ body' = [body EXCEPT ![t] = b]
    /\ response' = [response EXCEPT ![t] = NoResponse]
    /\ previous' = [previous EXCEPT ![t] =
           IF sequential /\ pc[t] = "done" /\ handler[t] = h
              /\ h \in {"update", "list_db_contents"} /\ b = body[t]
           THEN [NoPrevious EXCEPT !.repeat = TRUE, !.response = response[t], !.rows = DB]
           ELSE IF sequential /\ pc[t] = "done" /\ handler[t] = "predict"
                   /\ response[t].keys = {"outcome", "error"}
                THEN [NoPrevious EXCEPT !.rejected = TRUE, !.rows = DB]
                ELSE NoPrevious]
    /\ UNCHANGED <<DB, p, dirty, lax_storage>>

\* Concurrent clients: the requests of ClientScoreBodies and ClientUpdateBodies.
PostShouldSearch(t) == \E b \in ClientScoreBodies : Receive(t, "predict", b, "verify", FALSE)
PostSearchResult(t) == \E b \in ClientUpdateBodies : Receive(t, "update", b, "get", FALSE)
GetListDbContents(t) == Receive(t, "list_db_contents", NullBody, "select", FALSE)

\* One client at a time, sending any request of ScoreBodies and UpdateBodies.
AnyShouldSearch(t) == \E b \in ScoreBodies : Receive(t, "predict", b, "verify", TRUE)
AnySearchResult(t) == \E b \in UpdateBodies : Receive(t, "update", b, "get", TRUE)
AnyListDbContents(t) == Receive(t, "list_db_contents", NullBody, "select", TRUE)

\* The handler of slot t ends with result r; its locals are gone.
Finish(t, r) ==
    /\ pc' = [pc EXCEPT ![t] = "done"]
    /\ response' = [response EXCEPT ![t] = r]
    /\ p' = [p EXCEPT ![t] = NoPrediction]

\* The handler of slot t goes on to step next with response r and instance inst.
Goto(t, next, r, inst) ==
    /\ pc' = [pc EXCEPT ![t] = next]
    /\ response' = [response EXCEPT ![t] = r]
    /\ p' = [p EXCEPT ![t] = inst]

\* Faulty variant of PredictVerify: the error response is built but not returned.
PredictVerifyNoReturn(t) ==
    /\ pc[t] = "verify"
    /\ IF body[t].kind = "NoneType"
       THEN Finish(t, Raised("TypeError"))
       ELSE LET v == verify_data_types(body[t].data)
            IN IF v.is_error
               THEN Goto(t, "score", ErrorResponse(v.t, v.msg), p[t])
               ELSE Goto(t, "score", response[t], p[t])
    /\ UNCHANGED <<DB, handler, body, dirty, lax_storage, previous>>

(***************************************************************************)
(* predict, lines 94-99: get_json and verify_data_types.  On a None body   *)
(* `col not in data` raises TypeError.  On a violation the handler wraps   *)
(* the payload verify_data_types returned in another {'error': ...}.       *)
(***************************************************************************)
PredictVerify(t) ==
    /\ pc[t] = "verify"
    /\ IF body[t].kind = "NoneType"
       THEN Finish(t, Raised("TypeError"))
       ELSE LET v == verify_data_types(body[t].data)
            IN IF v.is_error
               THEN Finish(t, ErrorResponse(v.t, v.msg))
               ELSE Goto(t, "score", response[t], p[t])
    /\ UNCHANGED <<DB, handler, body, dirty, lax_storage, previous>>

(***************************************************************************)
(* predict, lines 101-116: coerce the row, score it, build the response    *)
(* and the Prediction instance.  An exception of astype or of the pipeline *)
(* is not caught.                                                          *)
(***************************************************************************)
PredictScore(t) ==
    /\ pc[t] = "score"
    /\ LET s == pipeline(body[t].data)
           _id == body[t].data["observation_id"].val
       IN IF s.raises
          THEN Finish(t, Raised("ValueError"))
          ELSE Goto(t, "save",
                    [NoResponse EXCEPT !.keys = {"outcome"},
                                       !.outcome = JBool(s.prediction # 0)],
                    Prediction(0, _id, body[t], s.prediction, s.proba, JNone))
    /\ UNCHANGED <<DB, handler, body, dirty, lax_storage, previous>>

(***************************************************************************)
(* predict, lines 118-123: p.save() is one INSERT.  The unique index       *)
(* decides: either the row is appended (the key is the next rowid) or      *)
(* IntegrityError is raised, the handler adds the error to the response    *)
(* and the connection is left with a failed statement.  On a connection    *)
(* that already has one the INSERT is refused with another error, which    *)
(* the handler does not catch.                                             *)
(***************************************************************************)
PredictSave(t) ==
    /\ pc[t] = "save"
    /\ IF dirty[t]
       THEN /\ Finish(t, Raised("InternalError"))
            /\ UNCHANGED <<DB, dirty>>
       ELSE IF UniqueViolation(DB, p[t].observation_id)
       THEN /\ Goto(t, "rollback",
                    [response[t] EXCEPT
                        !.keys = @ \cup {"error"},
                        !.error = ErrorValue("str", AlreadyExists(p[t].observation_id))],
                    p[t])
            /\ dirty' = [dirty EXCEPT ![t] = TRUE]
            /\ UNCHANGED DB
       ELSE /\ DB' = Append(DB, [p[t] EXCEPT !.id = Len(DB) + 1])
            /\ Finish(t, [response[t] EXCEPT !.status = "returned"])
            /\ UNCHANGED dirty
    /\ UNCHANGED <<handler, body, lax_storage, previous>>

\* Faulty variant of PredictRollback: the response is returned without DB.rollback().
PredictWithoutRollback(t) ==
    /\ pc[t] = "rollback"
    /\ Finish(t, [response[t] EXCEPT !.status = "returned"])
    /\ UNCHANGED <<DB, handler, body, dirty, lax_storage, previous>>

\* predict, lines 124-125: DB.rollback(), then the response is returned.
PredictRollback(t) ==
    /\ pc[t] = "rollback"
    /\ dirty' = [dirty EXCEPT ![t] = FALSE]
    /\ Finish(t, [response[t] EXCEPT !.status = "returned"])
    /\ UNCHANGED <<DB, handler, body, lax_storage, previous>>

\* Faulty variant of UpdateGet: the outcome is read with obs.get('outcome').
UpdateGetOutcomeOptional(t) ==
    /\ pc[t] = "get"
    /\ LET obs == body[t].data
       IN IF body[t].kind = "NoneType" \/ "observation_id" \notin DOMAIN obs
          THEN Finish(t, ErrorResponse("str", Malformed))
          ELSE IF dirty[t]
          THEN Finish(t, ErrorResponse("str", Malformed))
          ELSE LET found == IF obs["observation_id"].kind = "str"
                            THEN RowsWith(DB, obs["observation_id"].val)
                            ELSE {}
               IN IF found = {}
                  THEN IF "id" \in DOMAIN obs
                       THEN Finish(t, ErrorResponse("str", DoesNotExist(PyStr(obs["id"]))))
                       ELSE Finish(t, Raised("KeyError"))
                  ELSE LET row == DB[CHOOSE i \in found : \A j \in found : i <= j]
                       IN Goto(t, "usave", response[t],
                               [row EXCEPT !.true_class =
                                    IF "outcome" \in DOMAIN obs THEN obs["outcome"] ELSE JNone])
    /\ UNCHANGED <<DB, handler, body, dirty, lax_storage, previous>>

(***************************************************************************)
(* update, lines 130-133 and the handlers of lines 142-147 they can reach: *)
(* get_json, Prediction.get by observation_id, p.true_class = outcome.     *)
(*   - a None body or a missing observation_id/outcome key raises inside   *)
(*     the try and lands in the bare except;                               *)
(*   - an id with no row raises DoesNotExist, whose handler formats        *)
(*     obs['id']: a KeyError there is raised inside the except clause and  *)
(*     leaves the handler;                                                 *)
(*   - a SELECT refused on a connection with a failed statement lands in   *)
(*     the bare except.                                                    *)
(***************************************************************************)
UpdateGet(t) ==
    /\ pc[t] = "get"
    /\ LET obs == body[t].data
       IN IF body[t].kind = "NoneType" \/ "observation_id" \notin DOMAIN obs
          THEN Finish(t, ErrorResponse("str", Malformed))
          ELSE IF dirty[t]
          THEN Finish(t, ErrorResponse("str", Malformed))
          ELSE LET found == IF obs["observation_id"].kind = "str"
                            THEN RowsWith(DB, obs["observation_id"].val)
                            ELSE {}
               IN IF found = {}
                  THEN IF "id" \in DOMAIN obs
                       THEN Finish(t, ErrorResponse("str", DoesNotExist(PyStr(obs["id"]))))
                       ELSE Finish(t, Raised("KeyError"))
                  ELSE LET row == DB[CHOOSE i \in found : \A j \in found : i <= j]
                       IN IF "outcome" \notin DOMAIN obs
                          THEN Finish(t, ErrorResponse("str", Malformed))
                          ELSE Goto(t, "usave", response[t],
                                    [row EXCEPT !.true_class = obs["outcome"]])
    /\ UNCHANGED <<DB, handler, body, dirty, lax_storage, previous>>

\* Faulty variant of WriteBack: the instance is changed but never saved.
WriteBackNothing(rows, inst, tc) == rows

\* Faulty variant of WriteBack: the instance is saved with force_insert, as a new row.
WriteBackInsert(rows, inst, tc) == Append(rows, [inst EXCEPT !.true_class = tc])

\* Faulty variant of WriteBack: the row is written only while its true_class is NULL.
WriteBackFirstWins(rows, inst, tc) ==
    [i \in 1..Len(rows) |->
        IF rows[i].id = inst.id /\ rows[i].true_class = JNone
        THEN [inst EXCEPT !.true_class = tc] ELSE rows[i]]

\* Faulty variant of WriteBack: an UPDATE of true_class without its WHERE clause.
WriteBackEveryRow(rows, inst, tc) ==
    [i \in 1..Len(rows) |-> [rows[i] EXCEPT !.true_class = tc]]

\* The UPDATE of p.save(): every field of the instance is written to the row
\* whose key is p.id, true_class as the database value tc.
WriteBack(rows, inst, tc) ==
    [i \in 1..Len(rows) |->
        IF rows[i].id = inst.id THEN [inst EXCEPT !.true_class = tc] ELSE rows[i]]

(***************************************************************************)
(* update, lines 134-141 and 145-147: p.save() and the success payload.    *)
(* int() raising TypeError ends in the bare except.  A string that is no   *)
(* numeral ends there too when the library or the database rejects it, and *)
(* is stored as it is when the build passes it on to a typeless column.    *)
(* The payload reports the instance's attributes, not the stored row.  An  *)
(* UPDATE refused on a connection with a failed statement ends in the bare *)
(* except as well.                                                         *)
(***************************************************************************)
UpdateSave(t) ==
    /\ pc[t] = "usave"
    /\ LET a == IntAdapt(p[t].true_class)
           ok == [NoResponse EXCEPT !.status = "returned",
                                    !.keys = {"observation_id", "outcome", "predicted_outcome"},
                                    !.observation_id = p[t].observation_id,
                                    !.outcome = p[t].true_class,
                                    !.predicted_outcome = p[t].prediction]
       IN IF dirty[t] \/ a.exc = "TypeError" \/ (a.exc = "ValueError" /\ ~ lax_storage)
          THEN /\ Finish(t, ErrorResponse("str", Malformed))
               /\ UNCHANGED DB
          ELSE /\ DB' = WriteBack(DB, p[t], a.value)
               /\ Finish(t, ok)
    /\ UNCHANGED <<handler, body, dirty, lax_storage, previous>>

\* Faulty variant of ListSelect: the SELECT keeps the reconciled rows only.
ListSelectReconciledOnly(t) ==
    /\ pc[t] = "select"
    /\ IF dirty[t]
       THEN Finish(t, Raised("InternalError"))
       ELSE Finish(t, [NoResponse EXCEPT !.status = "returned",
                          !.rows = SelectSeq(DB, LAMBDA r : r.true_class # JNone)])
    /\ UNCHANGED <<DB, handler, body, dirty, lax_storage, previous>>

\* list_db_contents, lines 152-154: one SELECT, every row as a dict.  The
\* handler catches nothing: a refused SELECT leaves it as an exception.
ListSelect(t) ==
    /\ pc[t] = "select"
    /\ IF dirty[t]
       THEN Finish(t, Raised("InternalError"))
       ELSE Finish(t, [NoResponse EXCEPT !.status = "returned", !.rows = DB])
    /\ UNCHANGED <<DB, handler, body, dirty, lax_storage, previous>>

\* Concurrent requests in every slot.
Next ==
    \E t \in Threads :
        \/ PostShouldSearch(t)
        \/ PostSearchResult(t)
        \/ GetListDbContents(t)
        \/ PredictVerify(t)
        \/ PredictScore(t)
        \/ PredictSave(t)
        \/ PredictRollback(t)
        \/ UpdateGet(t)
        \/ UpdateSave(t)
        \/ ListSelect(t)

Spec == Init /\ [][Next]_vars

\* One request at a time, over every request body of the model.
NextSeq ==
    \/ AnyShouldSearch(1)
    \/ AnySearchResult(1)
    \/ AnyListDbContents(1)
    \/ PredictVerify(1)
    \/ PredictScore(1)
    \/ PredictSave(1)
    \/ PredictRollback(1)
    \/ UpdateGet(1)
    \/ UpdateSave(1)
    \/ ListSelect(1)

SpecSeq == InitSeq /\ [][NextSeq]_vars

(***************************************************************************)
(* The validator on its own: one request to an empty table, posting an     *)
(* observation that deviates from a valid one in at most MaxBad columns,   *)
(* each deviating column absent or holding a value of any JSON type.       *)
(***************************************************************************)
Samples == {JStr("x"), JBool(TRUE), JInt(1), JFloat(15), JNone, JList, JDict}

Absent == [kind |-> "absent", val |-> "", num |-> 0]

Deviate(d, change) ==
    [c \in {x \in DOMAIN d : x \notin DOMAIN change \/ change[x] # Absent} |->
        IF c \in DOMAIN change THEN change[c] ELSE d[c]]

Deviations ==
    UNION {[cols -> Samples \cup {Absent}] :
              cols \in {cs \in SUBSET FieldNames : Cardinality(cs) <= MaxBad}}

ValidatorBodies ==
    {DictBody(Deviate(ValidObservation("obs-1", "Controlled drugs"), ch)) : ch \in Deviations}

PostObservation(t) ==
    /\ pc[t] = "idle"
    /\ \E b \in ValidatorBodies : Receive(t, "predict", b, "verify", FALSE)

NextValidate ==
    \/ PostObservation(1)
    \/ PredictVerify(1)
    \/ PredictScore(1)
    \/ PredictSave(1)

SpecValidate == Init /\ [][NextValidate]_vars


(***************************************************************************)
(* Vocabulary of the properties.                                           *)
(***************************************************************************)
\* The required fields of the data model, in table order, with their kinds.
RequiredFields ==
    << <<"observation_id", "string">>, <<"Type", "string">>, <<"Date", "string">>,
       <<"Part of a policing operation", "boolean">>, <<"Latitude", "number">>,
       <<"Longitude", "number">>, <<"Gender", "string">>, <<"Age range", "string">>,
       <<"Officer-defined ethnicity", "string">>, <<"Legislation", "string">>,
       <<"Object of search", "string">>, <<"station", "string">> >>

PrimitiveKind(v) ==
    CASE v.kind = "str" -> "string"
      [] v.kind = "bool" -> "boolean"
      [] v.kind \in {"int", "float"} -> "number"
      [] OTHER -> "other"

AllowedKindsText(kind) ==
    CASE kind = "string" -> "[<class 'str'>]"
      [] kind = "boolean" -> "[<class 'bool'>]"
      [] OTHER -> "[<class 'float'>, <class 'int'>]"

Violations(data) ==
    {i \in 1..Len(RequiredFields) :
        \/ RequiredFields[i][1] \notin DOMAIN data
        \/ PrimitiveKind(data[RequiredFields[i][1]]) # RequiredFields[i][2]}

FirstViolation(data) == CHOOSE i \in Violations(data) : \A j \in Violations(data) : i <= j

\* The message the data model asks for when field i of the table violates.
ViolationMessage(data, i) ==
    LET name == RequiredFields[i][1]
    IN IF name \notin DOMAIN data
       THEN Msg("{col} column not found", name, "", "")
       ELSE Msg("{col} column has wrong data type. Expected {expected_type}, got {actual_type}",
                name, AllowedKindsText(RequiredFields[i][2]), data[name].kind)

ValidationFormats ==
    {"{col} column not found",
     "{col} column has wrong data type. Expected {expected_type}, got {actual_type}"}

\* Slot t runs predict on a JSON object and is past verify_data_types.
Verified(t) ==
    /\ handler[t] = "predict"
    /\ body[t].kind = "dict"
    /\ pc[t] \in {"score", "save", "rollback", "done"}

\* C5: whenever validation of a score request fails, the response is a mapping
\* with the single key error whose value is the message string itself (one of
\* the two validation formats, not a nested mapping), and has no outcome key.
C5_ValidationErrorIsString ==
    \A t \in Threads :
        (Verified(t) /\ Violations(body[t].data) # {})
        => /\ pc[t] = "done"
           /\ response[t].status = "returned"
           /\ response[t].keys = {"error"}
           /\ response[t].error.t = "str"
           /\ response[t].error.msg.fmt \in ValidationFormats

\* C6: verify_data_types reports exactly the first field, in table order, that
\* is missing or holds a value of a kind outside its allowed set, whatever the
\* later fields hold, and reports success if and only if no field violates;
\* kinds are matched exactly (a boolean is no number, a number no boolean).
C6_FirstViolationReported ==
    \A t \in Threads :
        Verified(t)
        => IF Violations(body[t].data) = {}
           THEN response[t].error.msg.fmt \notin ValidationFormats
           ELSE /\ pc[t] = "done"
                /\ response[t].status = "returned"
                /\ response[t].error.msg
                     = ViolationMessage(body[t].data, FirstViolation(body[t].data))

\* C6 witness: a number for the boolean field and a boolean for Latitude; the
\* earlier of the two, the boolean field, is the one reported.
C6_Witness ==
    \E t \in Threads :
        /\ Verified(t) /\ pc[t] = "done"
        /\ "Latitude" \in DOMAIN body[t].data
        /\ body[t].data["Latitude"].kind = "bool"
        /\ response[t].error.msg =
              WrongDataType("Part of a policing operation", <<"bool">>, "int")


\* The observation_id a score request carries (a string once validation passed).
RequestId(t) == body[t].data["observation_id"].val

\* Slot t takes a step of its handler.
Steps(t) == pc'[t] # pc[t]

InPredict(t) == pc[t] \in {"verify", "score", "save", "rollback"}
InUpdate(t) == pc[t] \in {"get", "usave"}

StoredIds(rows) == {rows[i].observation_id : i \in 1..Len(rows)}

\* The duplicate error of the interface: the message string with the id in it.
DuplicateError(id) ==
    [t |-> "str", msg |-> Msg("Observation ID: \"{}\" already exists", id, "", "")]

\* The not-found error of the interface.
NotFoundError(id) ==
    [t |-> "str", msg |-> Msg("Observation ID: \"{}\" does not exist", id, "", "")]

\* C1: at most one record per observation_id after any sequence of requests;
\* the first insert of an id wins; a later score request with that id is
\* rejected with the duplicate error, and no step of a score request changes
\* any field of a record already stored, whatever payload the request carries.
C1_AtMostOncePersistence ==
    [][/\ \A id \in StoredIds(DB') : Cardinality(RowsWith(DB', id)) = 1
       /\ \A t \in Threads :
            (InPredict(t) /\ Steps(t))
            => /\ Len(DB') >= Len(DB)
               /\ \A i \in 1..Len(DB) : DB'[i] = DB[i]
               /\ (pc[t] = "save" /\ RequestId(t) \in StoredIds(DB))
                  => /\ DB' = DB
                     /\ response'[t].error = DuplicateError(RequestId(t))
               /\ (pc[t] = "save" /\ RequestId(t) \notin StoredIds(DB))
                  => /\ Len(DB') = Len(DB) + 1
                     /\ DB'[Len(DB')].observation_id = RequestId(t)
                     /\ DB'[Len(DB')].observation = body[t]
               /\ pc[t] = "rollback"
                  => /\ response'[t].status = "returned"
                     /\ response'[t].error = DuplicateError(RequestId(t))
      ]_vars

\* C1 witness: a score request was answered with the duplicate error while the
\* record stored under its id holds another payload and another prediction.
C1_Witness ==
    \E t \in Threads : \E i \in 1..Len(DB) :
        /\ handler[t] = "predict" /\ pc[t] = "done"
        /\ response[t].error = DuplicateError(DB[i].observation_id)
        /\ DB[i].observation # body[t]
        /\ JBool(DB[i].prediction # 0) # response[t].outcome

\* Slot t's score request stored its record and was answered without error.
Inserted(t) ==
    /\ handler[t] = "predict" /\ pc[t] = "done"
    /\ response[t].status = "returned"
    /\ response[t].keys = {"outcome"}

\* Slot t's score request was refused by the insert.
Rejected(t) ==
    /\ handler[t] = "predict" /\ pc[t] \in {"rollback", "done"}
    /\ "error" \in response[t].keys
    /\ response[t].error.msg.fmt = DuplicateError("").msg.fmt
    /\ response[t].error = DuplicateError(RequestId(t))

\* C2: under every interleaving of concurrent score requests with the same
\* observation_id, no two of them are both answered without error, each that
\* reached the insert either stored the record (and the stored record is its
\* own) or got the duplicate error, and the table holds exactly one record for
\* the id; the insert itself decides, not an earlier look at the table.
C2_UniqueUnderConcurrency ==
    /\ \A t \in Threads :
          (Inserted(t) \/ Rejected(t))
          => Cardinality(RowsWith(DB, RequestId(t))) = 1
    /\ \A t \in Threads :
          Inserted(t)
          => \A i \in RowsWith(DB, RequestId(t)) : DB[i].observation = body[t]
    /\ \A t1, t2 \in Threads :
          (t1 # t2 /\ Inserted(t1) /\ Inserted(t2))
          => RequestId(t1) # RequestId(t2)
    /\ \A t \in Threads :
          (handler[t] = "predict" /\ response[t].status = "returned"
           /\ "outcome" \in response[t].keys)
          => (Inserted(t) \/ Rejected(t))

\* C2 witness: two slots hold score requests with the same id and different
\* payloads; one stored the only record of the table, the other has just been
\* refused by its insert and has not yet returned.
C2_Witness ==
    \E t1, t2 \in Threads :
        /\ Inserted(t1)
        /\ Rejected(t2) /\ pc[t2] = "rollback"
        /\ RequestId(t1) = RequestId(t2)
        /\ body[t1] # body[t2]
        /\ Len(DB) = 1

\* Slot t's reconcile request carries observation_id and outcome.
WellFormedUpdate(t) ==
    /\ body[t].kind = "dict"
    /\ {"observation_id", "outcome"} \subseteq DOMAIN body[t].data

\* C3: a reconcile request with observation_id and outcome keys whose id has
\* no record returns {error: 'Observation ID: "<id>" does not exist'} naming
\* the requested observation_id, and the table is unchanged.
C3_UnknownIdNotFound ==
    [][\A t \in Threads :
          (pc[t] = "get" /\ Steps(t) /\ WellFormedUpdate(t)
           /\ RequestId(t) \notin StoredIds(DB))
          => /\ pc'[t] = "done"
             /\ response'[t].status = "returned"
             /\ response'[t].keys = {"error"}
             /\ response'[t].error = NotFoundError(RequestId(t))
             /\ DB' = DB
      ]_vars

\* C4: no request to predict, update or list_db_contents ends with an
\* exception leaving the handler; every handler returns a payload.
C4_NoExceptionEscapes ==
    \A t \in Threads : pc[t] = "done" => response[t].status = "returned"


\* The classifier's answer for the observation slot t submitted.
Classified(t) == pipeline(body[t].data)

\* C7: a valid observation passes validation and, once the classifier has
\* scored it and its id is not stored, the request returns {outcome: boolean}
\* without an error key and the table holds exactly one more record: that
\* observation_id, the raw payload, the classifier's decision (agreeing with
\* the returned outcome) and probability, and true_class = null.
C7_ScoringStoresOneRecord ==
    [][\A t \in Threads :
          /\ (pc[t] = "verify" /\ Steps(t) /\ body[t].kind = "dict"
              /\ Violations(body[t].data) = {})
             => (pc'[t] = "score" /\ DB' = DB)
          /\ (pc[t] = "score" /\ Steps(t) /\ ~ Classified(t).raises)
             => (pc'[t] = "save" /\ DB' = DB)
          /\ (pc[t] = "save" /\ Steps(t) /\ RequestId(t) \notin StoredIds(DB))
             => /\ pc'[t] = "done"
                /\ response'[t].status = "returned"
                /\ response'[t].keys = {"outcome"}
                /\ response'[t].outcome = JBool(Classified(t).prediction # 0)
                /\ Len(DB') = Len(DB) + 1
                /\ \A i \in 1..Len(DB) : DB'[i] = DB[i]
                /\ DB'[Len(DB')].observation_id = RequestId(t)
                /\ DB'[Len(DB')].observation = body[t]
                /\ DB'[Len(DB')].prediction = Classified(t).prediction
                /\ DB'[Len(DB')].proba = Classified(t).proba
                /\ DB'[Len(DB')].true_class = JNone
      ]_vars

\* C7 witness: a score request has been answered {outcome: true} and its
\* record is the second of the table, unreconciled.
C7_Witness ==
    \E t \in Threads :
        /\ Inserted(t)
        /\ response[t].outcome = JBool(TRUE)
        /\ Len(DB) = 2
        /\ DB[2].observation = body[t]
        /\ DB[2].prediction = 1 /\ DB[2].proba = 80
        /\ DB[2].true_class = JNone

\* C8: a valid, scored request whose id is already stored is answered with
\* both outcome (the classifier's decision for the submitted observation, the
\* stored decision when the stored observation is re-submitted) and
\* error = 'Observation ID: "<id>" already exists', and stores nothing.
C8_DuplicateReportsOutcome ==
    [][\A t \in Threads :
          /\ (pc[t] = "save" /\ Steps(t) /\ RequestId(t) \in StoredIds(DB))
             => /\ pc'[t] = "rollback"
                /\ DB' = DB
                /\ response'[t].keys = {"outcome", "error"}
                /\ response'[t].error = DuplicateError(RequestId(t))
                /\ response'[t].outcome = JBool(Classified(t).prediction # 0)
                /\ \A i \in RowsWith(DB, RequestId(t)) :
                      DB[i].observation = body[t]
                      => response'[t].outcome = JBool(DB[i].prediction # 0)
          /\ (pc[t] = "rollback" /\ Steps(t))
             => /\ pc'[t] = "done"
                /\ DB' = DB
                /\ response'[t] = [response[t] EXCEPT !.status = "returned"]
      ]_vars

\* C8 witness: the stored observation was re-submitted and answered with its
\* outcome and the duplicate error.
C8_Witness ==
    \E t \in Threads : \E i \in 1..Len(DB) :
        /\ Rejected(t) /\ pc[t] = "done"
        /\ response[t].status = "returned"
        /\ response[t].keys = {"outcome", "error"}
        /\ DB[i].observation = body[t]

\* The success payload of update for id, outcome o and stored prediction.
Reconciled(id, o, prediction) ==
    [NoResponse EXCEPT !.status = "returned",
                       !.keys = {"observation_id", "outcome", "predicted_outcome"},
                       !.observation_id = id,
                       !.outcome = o,
                       !.predicted_outcome = prediction]

\* The round trip of one reconcile step of slot t with outcome o.
RoundTrip(t, o) ==
    /\ pc'[t] = "done"
    /\ Len(DB') = Len(DB)
    /\ \A i \in RowsWith(DB, RequestId(t)) :
          /\ response'[t] = Reconciled(RequestId(t), o, DB[i].prediction)
          /\ DB'[i].observation_id = RequestId(t)
          /\ PyEq(DB'[i].true_class, o)
          /\ DB'[i].prediction = DB[i].prediction
          /\ DB'[i].proba = DB[i].proba

\* C9 as stated: for every stored id and every outcome value o, reconcile
\* answers {observation_id, outcome: o, predicted_outcome: stored prediction}
\* and the record then reads true_class == o with prediction and proba as
\* inserted.
C9_RoundTripAnyOutcome ==
    [][\A t \in Threads :
          (pc[t] = "usave" /\ Steps(t))
          => RoundTrip(t, body[t].data["outcome"])
      ]_vars

IntegerLabel(o) == o.kind \in {"int", "bool", "NoneType"}

\* C9 amended: for every stored id and every outcome o that is an integer, a
\* boolean or null, reconcile answers {observation_id, outcome: o,
\* predicted_outcome: stored prediction}, the record then reads
\* true_class == o (a boolean reads back as 0 or 1) with prediction and proba
\* as inserted, and list returns the records as stored.
C9_RoundTripIntegerOutcome ==
    [][\A t \in Threads :
          /\ (pc[t] = "usave" /\ Steps(t) /\ IntegerLabel(body[t].data["outcome"]))
             => RoundTrip(t, body[t].data["outcome"])
          /\ (pc[t] = "select" /\ Steps(t))
             => (response'[t].rows = DB /\ DB' = DB)
      ]_vars

\* C9 witness: a record scored 1 was reconciled with outcome true; the answer
\* echoes true and the record reads true_class 1.
C9_Witness ==
    \E t \in Threads : \E i \in 1..Len(DB) :
        /\ handler[t] = "update" /\ pc[t] = "done"
        /\ response[t] = Reconciled(DB[i].observation_id, JBool(TRUE), 1)
        /\ DB[i].true_class = JInt(1)
        /\ DB[i].prediction = 1

\* C10: a reconcile request repeated right after it was answered leaves the
\* table as the first one left it and gets the same answer; and no step of a
\* reconcile request, successful or not, changes the stored observation_ids.
C10_CorrectionIdempotent ==
    [][\A t \in Threads :
          (InUpdate(t) /\ Steps(t))
          => /\ [i \in 1..Len(DB') |-> DB'[i].observation_id]
                  = [i \in 1..Len(DB) |-> DB[i].observation_id]
             /\ (pc'[t] = "done" /\ previous[t].repeat)
                => /\ DB' = previous[t].rows
                   /\ response'[t] = previous[t].response
      ]_vars

\* C10 witness: a successful reconciliation with a non-integer outcome was
\* repeated and answered again; the table is the one the first call left.
C10_Witness ==
    \E t \in Threads : \E i \in 1..Len(DB) :
        /\ handler[t] = "update" /\ pc[t] = "done"
        /\ previous[t].repeat
        /\ response[t] = Reconciled(DB[i].observation_id, JFloat(15), DB[i].prediction)
        /\ DB[i].true_class = JInt(1)
        /\ DB = previous[t].rows


\* C11: every record moves only along absent -> recorded (true_class null)
\* -> reconciled (true_class a value), reconciled -> reconciled being an
\* overwrite: no step removes or renames a stored record, a record is created
\* with true_class null, true_class leaves null only by a reconcile step for
\* that id, and no step takes a reconciled record back to true_class null.
C11_RecordLifecycle ==
    [][/\ Len(DB') >= Len(DB)
       /\ \A i \in 1..Len(DB) :
            /\ DB'[i].observation_id = DB[i].observation_id
            /\ DB[i].true_class # JNone => DB'[i].true_class # JNone
            /\ (DB[i].true_class = JNone /\ DB'[i].true_class # JNone)
               => \E t \in Threads :
                     /\ pc[t] = "usave" /\ pc'[t] = "done"
                     /\ RequestId(t) = DB[i].observation_id
       /\ \A i \in (Len(DB) + 1)..Len(DB') : DB'[i].true_class = JNone
      ]_vars


\* C12: a score request refused as a duplicate changes no record and rolls
\* its failed write back before the handler returns; the next request on the
\* same connection then behaves as if the refused one had never been sent: a
\* score of a fresh id stores its record, a reconcile of a stored id updates
\* true_class, and list returns the records as they were before.
C12_CleanAfterRejectedInsert ==
    [][\A t \in Threads :
          /\ (pc[t] = "rollback" /\ Steps(t))
             => (pc'[t] = "done" /\ DB' = DB)
          /\ pc'[t] \in {"idle", "done"} => ~ dirty'[t]
          /\ (previous[t].rejected /\ Steps(t))
             => /\ (pc[t] = "save" /\ RequestId(t) \notin StoredIds(DB))
                   => /\ pc'[t] = "done"
                      /\ response'[t].status = "returned"
                      /\ response'[t].keys = {"outcome"}
                      /\ Len(DB') = Len(DB) + 1
                      /\ DB'[Len(DB')].observation = body[t]
                /\ (pc[t] = "get" /\ WellFormedUpdate(t) /\ RequestId(t) \in StoredIds(DB))
                   => pc'[t] = "usave"
                /\ (pc[t] = "usave" /\ IntegerLabel(body[t].data["outcome"]))
                   => /\ response'[t].status = "returned"
                      /\ "outcome" \in response'[t].keys
                      /\ \A i \in RowsWith(DB, RequestId(t)) :
                            PyEq(DB'[i].true_class, body[t].data["outcome"])
                /\ pc[t] = "select"
                   => /\ response'[t].status = "returned"
                      /\ response'[t].rows = previous[t].rows
                      /\ DB' = DB
      ]_vars

\* C12 witness: the request sent right after a refused duplicate was a score
\* of a fresh id, and its record has been stored.
C12_Witness ==
    \E t \in Threads :
        /\ previous[t].rejected
        /\ Inserted(t)
        /\ Len(DB) = Len(previous[t].rows) + 1
        /\ DB[Len(DB)].observation = body[t]


\* Slot t's reconcile request was answered with the success payload.
Corrected(t) ==
    /\ handler[t] = "update" /\ pc[t] = "done"
    /\ response[t].status = "returned"
    /\ response[t].keys = {"observation_id", "outcome", "predicted_outcome"}

\* Rows r and s agree on every field but true_class.
SameButTrueClass(r, s) ==
    /\ r.id = s.id
    /\ r.observation_id = s.observation_id
    /\ r.observation = s.observation
    /\ r.prediction = s.prediction
    /\ r.proba = s.proba

\* C13: concurrent reconcile requests for the same stored id are
\* last-writer-wins: under every interleaving of their get and save steps each
\* save returns the success payload with its own outcome and leaves the record
\* with that outcome as true_class, and true_class changes by no other step,
\* so that it always is the outcome of the save applied last, one of the
\* outcomes sent and never null or another value; the
\* record's observation_id, observation, prediction and proba stay as they
\* were although the save writes back the whole record read earlier.
C13_LastWriterWins ==
    [][/\ \A t \in Threads :
            (pc[t] = "usave" /\ Steps(t))
            => /\ pc'[t] = "done"
               /\ response'[t].status = "returned"
               /\ response'[t].keys = {"observation_id", "outcome", "predicted_outcome"}
               /\ response'[t].observation_id = RequestId(t)
               /\ response'[t].outcome = body[t].data["outcome"]
               /\ Len(DB') = Len(DB)
               /\ RowsWith(DB, RequestId(t)) # {}
               /\ \A i \in RowsWith(DB, RequestId(t)) :
                     /\ DB'[i].true_class # JNone
                     /\ PyEq(DB'[i].true_class, body[t].data["outcome"])
                     /\ SameButTrueClass(DB[i], DB'[i])
       /\ \A i \in 1..Len(DB) :
            DB'[i].true_class # DB[i].true_class
            => \E t \in Threads :
                  /\ pc[t] = "usave" /\ Steps(t)
                  /\ RequestId(t) = DB[i].observation_id
                  /\ PyEq(DB'[i].true_class, body[t].data["outcome"])
      ]_vars

\* C13 witness: two reconcile requests for the same id with outcomes 0 and 1
\* have both returned the success payload, and the record reads the outcome
\* of the second slot.
C13_Witness ==
    \E t1, t2 \in Threads : \E i \in 1..Len(DB) :
        /\ t1 < t2
        /\ Corrected(t1) /\ Corrected(t2)
        /\ RequestId(t1) = DB[i].observation_id
        /\ RequestId(t2) = DB[i].observation_id
        /\ body[t1].data["outcome"] # body[t2].data["outcome"]
        /\ DB[i].true_class = body[t2].data["outcome"]

\* C14: a successful reconcile changes only the true_class field of the
\* record whose observation_id is the request's: that record's other fields
\* and every field of every other record are unchanged; and across every
\* step of every operation true_class is the only field of a stored record
\* that changes.
C14_CorrectionFrame ==
    [][/\ \A i \in 1..Len(DB) :
            i <= Len(DB') /\ SameButTrueClass(DB[i], DB'[i])
       /\ \A t \in Threads :
            (pc[t] = "usave" /\ Steps(t))
            => /\ Len(DB') = Len(DB)
               /\ \A i \in 1..Len(DB) :
                     DB[i].observation_id # RequestId(t) => DB'[i] = DB[i]
      ]_vars

\* C14 witness: the table holds two records; a reconcile request for one of
\* them has returned the success payload and that record carries its
\* outcome, while the other record still has true_class null.
C14_Witness ==
    \E t \in Threads : \E i, j \in 1..Len(DB) :
        /\ Corrected(t)
        /\ DB[i].observation_id = RequestId(t)
        /\ DB[i].true_class = body[t].data["outcome"]
        /\ DB[j].observation_id # RequestId(t)
        /\ DB[j].true_class = JNone


\* Slot t's score request carries an observation the data model accepts.
ValidRequest(t) == body[t].kind = "dict" /\ Violations(body[t].data) = {}

\* C15: inside a score request the classifier is invoked only after
\* validation has succeeded and the insert is attempted only after scoring
\* has returned; a request whose validation fails never reaches the
\* classifier and leaves the table unchanged, a request whose coercion or
\* scoring fails leaves the table unchanged; a reconcile request never runs
\* the validator or the classifier.
C15_ScoreRequestOrdering ==
    [][\A t \in Threads :
          Steps(t)
          => /\ pc'[t] = "score"
                => (pc[t] = "verify" /\ handler[t] = "predict" /\ ValidRequest(t))
             /\ pc'[t] = "save"
                => (pc[t] = "score" /\ handler[t] = "predict" /\ ~ Classified(t).raises)
             /\ (handler[t] = "predict" /\ DB' # DB) => pc[t] = "save"
             /\ (pc[t] = "verify" /\ ~ ValidRequest(t))
                => (pc'[t] = "done" /\ DB' = DB)
             /\ (pc[t] = "score" /\ Classified(t).raises)
                => (pc'[t] = "done" /\ DB' = DB)
             /\ handler'[t] = "update" => pc'[t] \in {"get", "usave", "done"}
      ]_vars

\* C15 witness: with a record stored, a score request whose observation lacks
\* a field was answered with an error by the validator, without an outcome.
C15_Witness ==
    \E t \in Threads :
        /\ handler[t] = "predict" /\ pc[t] = "done"
        /\ body[t].kind = "dict" /\ Violations(body[t].data) # {}
        /\ response[t].status = "returned"
        /\ response[t].keys = {"error"}
        /\ Len(DB) = 1


\* The generic error of the interface.
MalformedError == [t |-> "str", msg |-> Msg("error malformed request", "", "", "")]

\* Slot t's reconcile request is a JSON object without observation_id, or
\* names a stored id and has no outcome.
MalformedUpdate(t) ==
    /\ body[t].kind = "dict"
    /\ \/ "observation_id" \notin DOMAIN body[t].data
       \/ /\ "outcome" \notin DOMAIN body[t].data
          /\ RequestId(t) \in StoredIds(DB)

\* C16: a reconcile request whose body lacks the observation_id key, or names
\* a stored id but lacks the outcome key, returns
\* {error: 'error malformed request'} and leaves the table unchanged, the
\* true_class of the named record included.
C16_MalformedReconcile ==
    [][\A t \in Threads :
          (pc[t] = "get" /\ Steps(t) /\ MalformedUpdate(t))
          => /\ pc'[t] = "done"
             /\ response'[t].status = "returned"
             /\ response'[t].keys = {"error"}
             /\ response'[t].error = MalformedError
             /\ DB' = DB
      ]_vars

\* C16 witness: a reconcile request naming a reconciled record without an
\* outcome key was answered with the generic error, and the record still
\* carries its label.
C16_Witness ==
    \E t \in Threads : \E i \in 1..Len(DB) :
        /\ handler[t] = "update" /\ pc[t] = "done"
        /\ body[t].kind = "dict"
        /\ "observation_id" \in DOMAIN body[t].data
        /\ "outcome" \notin DOMAIN body[t].data
        /\ DB[i].observation_id = RequestId(t)
        /\ DB[i].true_class = JInt(1)
        /\ response[t].status = "returned"
        /\ response[t].error = MalformedError


\* C17: list returns exactly the stored records, one entry per stored
\* observation_id with its current observation, prediction, proba and
\* true_class; a list repeated with no write in between returns the records
\* in the same order; and the call changes nothing in the table.
C17_ListCompleteReadOnly ==
    [][\A t \in Threads :
          (pc[t] = "select" /\ Steps(t))
          => /\ pc'[t] = "done"
             /\ response'[t].status = "returned"
             /\ Len(response'[t].rows) = Len(DB)
             /\ \A i \in 1..Len(DB) : response'[t].rows[i] = DB[i]
             /\ \A id \in StoredIds(DB) :
                   Cardinality(RowsWith(response'[t].rows, id)) = 1
             /\ DB' = DB
             /\ (previous[t].repeat /\ previous[t].rows = DB)
                => response'[t].rows = previous[t].response.rows
      ]_vars

\* C17 witness: a list repeated right after a list returned two records, one
\* reconciled and one not, in the order of the first answer.
C17_Witness ==
    \E t \in Threads :
        /\ handler[t] = "list_db_contents" /\ pc[t] = "done"
        /\ previous[t].repeat
        /\ response[t].status = "returned"
        /\ Len(response[t].rows) = 2
        /\ response[t].rows = previous[t].response.rows
        /\ response[t].rows[1].true_class # JNone
        /\ response[t].rows[2].true_class = JNone

====
